---- MODULE Spec2Model ----
(***************************************************************************)
(* Model of the ink! contract `agenda` (src/lib.rs): two Mappings keyed by *)
(* u32 identifiers (contatos, compromissos), one next-identifier counter   *)
(* per kind, the two validators and the ten messages.                      *)
(*                                                                         *)
(* Text (Rust String / &str) is a sequence of one-character strings, so    *)
(* that split and parse are computed as the code computes them.            *)
(* Error messages are kept as opaque strings (accents dropped).            *)
(***************************************************************************)
EXTENDS Integers, Sequences, FiniteSets, TLC

(***************************************************************************)
(* Bounds of the model.                                                    *)
(***************************************************************************)
\* The greatest value of the identifier counters in the model: it stands for
\* u32::MAX, where checked_add(1) fails (the counter has the width of the
\* model, not 32 bits).
IdMax == 2

(***************************************************************************)
(* Program state (struct Agenda) and the observation of the last call.     *)
(***************************************************************************)
VARIABLES
    contatos,             \* Mapping<u32, Contato>: key -> None or Some(record)
    compromissos,         \* Mapping<u32, Compromisso>
    next_contato_id,      \* u32
    next_compromisso_id,  \* u32
    op,                   \* the last message called: [name, id, inp]
    ret,                  \* what it returned, or where it stands while it runs: [tag, val]
    criados_contato,      \* history: identifiers returned by criar_contato, in order
    criados_compromisso,  \* history: identifiers returned by criar_compromisso
    deletados_contato,    \* history: identifiers for which deletar_contato returned true
    deletados_compromisso, \* history: identifiers for which deletar_compromisso returned true
    caller,               \* the account that sent the last message
    criador_contato,      \* history: the sender of each successful criar_contato, in order
    criador_compromisso   \* history: the sender of each successful criar_compromisso

vars == <<contatos, compromissos, next_contato_id, next_compromisso_id, op, ret,
          criados_contato, criados_compromisso, deletados_contato, deletados_compromisso,
          caller, criador_contato, criador_compromisso>>

store == <<contatos, compromissos, next_contato_id, next_compromisso_id>>

hist == <<criados_contato, criados_compromisso, deletados_contato, deletados_compromisso>>

(***************************************************************************)
(* Text helpers: str::split(char) and str::parse::<u32>().unwrap_or(0).    *)
(***************************************************************************)
Digits == <<"0", "1", "2", "3", "4", "5", "6", "7", "8", "9">>

IsDigit(c) == \E i \in 1..10 : Digits[i] = c

DigitVal(c) == (CHOOSE i \in 1..10 : Digits[i] = c) - 1

\* str::split(sep): the pieces between the separators; n separators give
\* n + 1 pieces, empty pieces included ("" gives one empty piece).
RECURSIVE Split(_, _)
Split(s, sep) ==
    IF \A i \in 1..Len(s) : s[i] # sep
    THEN <<s>>
    ELSE LET i == CHOOSE k \in 1..Len(s) :
                      s[k] = sep /\ \A j \in 1..(k - 1) : s[j] # sep
         IN  <<SubSeq(s, 1, i - 1)>> \o Split(SubSeq(s, i + 1, Len(s)), sep)

\* The digits of a token folded left to right; -1 once the value passes
\* u32::MAX = 4294967295 (PosOverflow).
RECURSIVE FoldDigits(_, _)
FoldDigits(s, acc) ==
    IF s = <<>> THEN acc
    ELSE LET d == DigitVal(Head(s))
         IN  IF acc > 429496729 \/ (acc = 429496729 /\ d > 5)
             THEN -1
             ELSE FoldDigits(Tail(s), acc * 10 + d)

\* token.parse::<u32>().unwrap_or(0): an optional leading '+', then at least
\* one ASCII digit and nothing else; every error (empty, invalid digit,
\* overflow) becomes 0.
ParseU32(s) ==
    LET body == IF Len(s) > 1 /\ s[1] = "+" THEN Tail(s) ELSE s
    IN  IF body = <<>> \/ \E i \in 1..Len(body) : ~IsDigit(body[i])
        THEN 0
        ELSE LET v == FoldDigits(body, 0) IN IF v < 0 THEN 0 ELSE v

(***************************************************************************)
(* Validators.                                                             *)
(***************************************************************************)
validar_data_sem_zero(data) ==
    LET partes == Split(data, "/")
    IN  IF Len(partes) # 3 THEN FALSE
        ELSE LET dia == ParseU32(partes[1])
                 mes == ParseU32(partes[2])
                 ano == ParseU32(partes[3])
             IN  IF mes > 12 \/ dia > 31
                 THEN FALSE
                 ELSE IF mes \in {4, 6, 9, 11} THEN dia <= 30
                 ELSE IF mes = 2
                      THEN IF ano % 4 = 0 /\ (ano % 100 # 0 \/ ano % 400 = 0)
                           THEN dia <= 29
                           ELSE dia <= 28
                 ELSE dia <= 31

validar_data_mais_de_3(data) ==
    LET partes == Split(data, "/")
    IN  IF Len(partes) < 3 THEN FALSE
        ELSE LET dia == ParseU32(partes[1])
                 mes == ParseU32(partes[2])
                 ano == ParseU32(partes[3])
             IN  IF dia = 0 \/ mes = 0 \/ ano = 0 \/ mes > 12 \/ dia > 31
                 THEN FALSE
                 ELSE IF mes \in {4, 6, 9, 11} THEN dia <= 30
                 ELSE IF mes = 2
                      THEN IF ano % 4 = 0 /\ (ano % 100 # 0 \/ ano % 400 = 0)
                           THEN dia <= 29
                           ELSE dia <= 28
                 ELSE dia <= 31

validar_data_sem_400(data) ==
    LET partes == Split(data, "/")
    IN  IF Len(partes) # 3 THEN FALSE
        ELSE LET dia == ParseU32(partes[1])
                 mes == ParseU32(partes[2])
                 ano == ParseU32(partes[3])
             IN  IF dia = 0 \/ mes = 0 \/ ano = 0 \/ mes > 12 \/ dia > 31
                 THEN FALSE
                 ELSE IF mes \in {4, 6, 9, 11} THEN dia <= 30
                 ELSE IF mes = 2
                      THEN IF ano % 4 = 0 /\ ano % 100 # 0
                           THEN dia <= 29
                           ELSE dia <= 28
                 ELSE dia <= 31

validar_data(data) ==
    LET partes == Split(data, "/")
    IN  IF Len(partes) # 3 THEN FALSE
        ELSE LET dia == ParseU32(partes[1])
                 mes == ParseU32(partes[2])
                 ano == ParseU32(partes[3])
             IN  IF dia = 0 \/ mes = 0 \/ ano = 0 \/ mes > 12 \/ dia > 31
                 THEN FALSE
                 ELSE IF mes \in {4, 6, 9, 11} THEN dia <= 30
                 ELSE IF mes = 2
                      THEN IF ano % 4 = 0 /\ (ano % 100 # 0 \/ ano % 400 = 0)
                           THEN dia <= 29
                           ELSE dia <= 28
                 ELSE dia <= 31

validar_hora_ate_24(hora) ==
    LET partes == Split(hora, ":")
    IN  IF Len(partes) # 2 THEN FALSE
        ELSE LET h == ParseU32(partes[1])
                 minuto == ParseU32(partes[2])
             IN  h <= 24 /\ minuto < 60

validar_hora(hora) ==
    LET partes == Split(hora, ":")
    IN  IF Len(partes) # 2 THEN FALSE
        ELSE LET h == ParseU32(partes[1])
                 minuto == ParseU32(partes[2])
             IN  h < 24 /\ minuto < 60

(***************************************************************************)
(* Values: Option, Result, bool and Vec returned by the messages, and the  *)
(* ink! Mapping (one storage cell per u32 key, empty or holding a value).  *)
(***************************************************************************)
None == [tag |-> "None", val |-> "none"]

Some(v) == [tag |-> "Some", val |-> v]

Ok(v) == [tag |-> "Ok", val |-> v]

Err(msg) == [tag |-> "Err", val |-> msg]

Bool(b) == [tag |-> "bool", val |-> b]

Vec(s) == [tag |-> "Vec", val |-> s]

\* expect("Overflow") on a failed checked_add: the call aborts, nothing is
\* returned and nothing is written.
Panic == [tag |-> "Panic", val |-> "Overflow"]

Keys == 0..IdMax

\* Mapping::default()
MappingDefault == [k \in Keys |-> None]

\* Mapping::get
Get(m, k) == IF k \in DOMAIN m THEN m[k] ELSE None

\* Mapping::contains
Contains(m, k) == Get(m, k).tag = "Some"

\* Mapping::insert
\* Mutant of Insert: every value goes under key 0.
InsertNaChaveZero(m, k, v) == [m EXCEPT ![0] = Some(v)]

Insert(m, k, v) == [m EXCEPT ![k] = Some(v)]

\* Mapping::remove
\* Mutant of Remove: the key below k is emptied too.
RemoveComAnterior(m, k) == [j \in DOMAIN m |-> IF j = k \/ j + 1 = k THEN None ELSE m[j]]

Remove(m, k) == [m EXCEPT ![k] = None]

(***************************************************************************)
(* Arguments of the calls: a few valid and invalid field tuples per kind.  *)
(* The two valid ones of a kind differ in every field.                     *)
(***************************************************************************)
Vazio == <<>>

D_01_01_2000 == <<"0", "1", "/", "0", "1", "/", "2", "0", "0", "0">>

D_29_02_2024 == <<"2", "9", "/", "0", "2", "/", "2", "0", "2", "4">>

D_31_04_2025 == <<"3", "1", "/", "0", "4", "/", "2", "0", "2", "5">>

D_32_13_1990 == <<"3", "2", "/", "1", "3", "/", "1", "9", "9", "0">>

D_29_02_2023 == <<"2", "9", "/", "0", "2", "/", "2", "0", "2", "3">>

H_23_59 == <<"2", "3", ":", "5", "9">>

H_00_00 == <<"0", "0", ":", "0", "0">>

H_24_00 == <<"2", "4", ":", "0", "0">>

H_12_60 == <<"1", "2", ":", "6", "0">>

Ana == <<"A", "n", "a">>

Bob == <<"B", "o", "b">>

Tel555 == <<"5", "5", "5">>

Tel777 == <<"7", "7", "7">>

Reuniao == <<"R", "e", "u">>

Dentista == <<"D", "e", "n">>

ContatoArgs(n, t, i, d, c) ==
    [nome |-> n, telefone |-> t, idade |-> i, data_aniversario |-> d, categoria |-> c]

CompromissoArgs(t, d, h, p, u) ==
    [titulo |-> t, data |-> d, hora |-> h, prioridade |-> p, duracao |-> u]

ContatoInputs ==
    { ContatoArgs(Ana, Tel555, 20, D_01_01_2000, "Amigo"),
      ContatoArgs(Bob, Tel777, 30, D_29_02_2024, "Familiar"),
      ContatoArgs(Vazio, Tel555, 20, D_01_01_2000, "Amigo"),
      ContatoArgs(Ana, Vazio, 20, D_01_01_2000, "Colega"),
      ContatoArgs(Ana, Tel555, 20, D_31_04_2025, "Amigo"),
      ContatoArgs(Vazio, Vazio, 30, D_32_13_1990, "Familiar") }

CompromissoInputs ==
    { CompromissoArgs(Reuniao, D_01_01_2000, H_23_59, "Alta", 60),
      CompromissoArgs(Dentista, D_29_02_2024, H_00_00, "Baixa", -5),
      CompromissoArgs(Vazio, D_01_01_2000, H_23_59, "Alta", 60),
      CompromissoArgs(Reuniao, D_29_02_2023, H_23_59, "Media", 0),
      CompromissoArgs(Reuniao, D_01_01_2000, H_24_00, "Alta", 60),
      CompromissoArgs(Reuniao, D_31_04_2025, H_12_60, "Alta", 60),
      CompromissoArgs(Vazio, D_32_13_1990, H_24_00, "Baixa", -5) }

\* Arguments that vary the fields no check reads (idade, categoria,
\* prioridade, duracao) over their extremes, beside one tuple per failing check.
ContatoVariados ==
    { ContatoArgs(Ana, Tel555, 20, D_01_01_2000, "Amigo"),
      ContatoArgs(Ana, Tel555, 0, D_01_01_2000, "Colega"),
      ContatoArgs(Bob, Tel777, 2147483647, D_29_02_2024, "Familiar"),
      ContatoArgs(Vazio, Tel555, 20, D_01_01_2000, "Amigo"),
      ContatoArgs(Ana, Vazio, 0, D_01_01_2000, "Colega"),
      ContatoArgs(Ana, Tel555, 20, D_31_04_2025, "Familiar") }

CompromissoVariados ==
    { CompromissoArgs(Reuniao, D_01_01_2000, H_23_59, "Alta", 60),
      CompromissoArgs(Reuniao, D_01_01_2000, H_00_00, "Media", 0),
      CompromissoArgs(Dentista, D_29_02_2024, H_00_00, "Baixa", -2147483647),
      CompromissoArgs(Vazio, D_01_01_2000, H_23_59, "Alta", 0),
      CompromissoArgs(Reuniao, D_29_02_2023, H_23_59, "Media", 60),
      CompromissoArgs(Reuniao, D_01_01_2000, H_12_60, "Baixa", -2147483647) }

\* Arguments in which each checked field is valid or invalid, in every
\* combination.
ContatoCombinacoes ==
    {ContatoArgs(n, t, 20, d, "Amigo") :
        n \in {Ana, Vazio}, t \in {Tel555, Vazio}, d \in {D_01_01_2000, D_31_04_2025}}

CompromissoCombinacoes ==
    {CompromissoArgs(t, d, h, "Alta", 60) :
        t \in {Reuniao, Vazio}, d \in {D_01_01_2000, D_29_02_2023}, h \in {H_23_59, H_24_00}}

\* The identifiers passed to read, update and delete: every key of the model.
IdArgs == Keys

(***************************************************************************)
(* Error messages.                                                         *)
(***************************************************************************)
MsgNomeVazio == "Nome nao pode estar vazio"

MsgTelefoneVazio == "Telefone nao pode estar vazio"

MsgAniversarioInvalido == "Data de aniversario invalida. O formato deve ser dd/mm/aaaa."

MsgContatoNaoEncontrado == "Contato nao encontrado"

MsgTituloVazio == "Titulo nao pode estar vazio"

MsgDataInvalida == "Data invalida. O formato deve ser dd/mm/aaaa."

MsgHoraInvalida == "Hora invalida. O formato deve ser hh:mm."

MsgCompromissoNaoEncontrado == "Compromisso nao encontrado"

Valido == "valido"

(***************************************************************************)
(* Contatos.                                                               *)
(***************************************************************************)
\* The checks of criar_contato, in the order of the code: the message of the
\* first one that fails, or Valido.
\* Mutant of ErroCriarContato: the birthdate is checked before the phone.
ErroCriarContatoDataAntes(inp) ==
    IF inp.nome = <<>> THEN MsgNomeVazio
    ELSE IF ~validar_data(inp.data_aniversario) THEN MsgAniversarioInvalido
    ELSE IF inp.telefone = <<>> THEN MsgTelefoneVazio
    ELSE Valido

ErroCriarContato(inp) ==
    IF inp.nome = <<>> THEN MsgNomeVazio
    ELSE IF inp.telefone = <<>> THEN MsgTelefoneVazio
    ELSE IF ~validar_data(inp.data_aniversario) THEN MsgAniversarioInvalido
    ELSE Valido

\* Mutant of ErroAtualizarContato: the copy of the checks lost the one on
\* telefone.
ErroAtualizarContatoSemTelefone(inp) ==
    IF inp.nome = <<>> THEN MsgNomeVazio
    ELSE IF ~validar_data(inp.data_aniversario) THEN MsgAniversarioInvalido
    ELSE Valido

\* The checks of atualizar_contato (the code repeats those of criar_contato).
ErroAtualizarContato(inp) ==
    IF inp.nome = <<>> THEN MsgNomeVazio
    ELSE IF inp.telefone = <<>> THEN MsgTelefoneVazio
    ELSE IF ~validar_data(inp.data_aniversario) THEN MsgAniversarioInvalido
    ELSE Valido

\* Mutant of Contato: nome and telefone stored in each other's field.
ContatoTrocado(inp) ==
    [nome |-> inp.telefone, telefone |-> inp.nome, idade |-> inp.idade,
     data_aniversario |-> inp.data_aniversario, categoria |-> inp.categoria]

\* let contato = Contato { nome, telefone, idade, data_aniversario, categoria }
Contato(inp) ==
    [nome |-> inp.nome, telefone |-> inp.telefone, idade |-> inp.idade,
     data_aniversario |-> inp.data_aniversario, categoria |-> inp.categoria]

\* Mutant of CheckedAdd1: wrapping_add, the counter goes from its greatest
\* value back to 0.
CheckedAdd1Wrapping(n) == Some((n + 1) % (IdMax + 1))

\* Mutant of CheckedAdd1: the counter is written back without the increment.
CheckedAdd1SemIncremento(n) == IF n >= IdMax THEN None ELSE Some(n)

\* u32::checked_add(1): None at the greatest value of the counter.
CheckedAdd1(n) == IF n >= IdMax THEN None ELSE Some(n + 1)

\* The assignments of atualizar_contato to the record it read.
ContatoAtualizado(contato, inp) ==
    [contato EXCEPT !.nome = inp.nome, !.telefone = inp.telefone, !.idade = inp.idade,
                    !.data_aniversario = inp.data_aniversario,
                    !.categoria = inp.categoria]

\* Mutant of AtualizarRegistroContato: a missing target is inserted.
AtualizarRegistroContatoUpsert(m, id, inp) ==
    [m |-> Insert(m, id, Contato(inp)), ret |-> Ok(TRUE)]

\* if let Some(mut contato) = self.contatos.get(id) { ...; insert; Ok(true) }
\* else { Err(...) }: the mapping after the call and the value returned.
AtualizarRegistroContato(m, id, inp) ==
    IF Get(m, id).tag = "Some"
    THEN [m |-> Insert(m, id, ContatoAtualizado(Get(m, id).val, inp)), ret |-> Ok(TRUE)]
    ELSE [m |-> m, ret |-> Err(MsgContatoNaoEncontrado)]

\* Mutant of DeletarRegistroContato: remove, then true, without the test.
DeletarRegistroContatoSempreTrue(m, id) == [m |-> Remove(m, id), ret |-> TRUE]

\* The body of deletar_contato: the mapping after the call and the bool returned.
DeletarRegistroContato(m, id) ==
    IF Contains(m, id)
    THEN [m |-> Remove(m, id), ret |-> TRUE]
    ELSE [m |-> m, ret |-> FALSE]

\* for id in from..to_excl { if let Some(x) = m.get(id) { lista.push(x) } }
RECURSIVE Coletar(_, _, _, _)
Coletar(m, id, fim, lista) ==
    IF id >= fim THEN lista
    ELSE Coletar(m, id + 1, fim,
                 IF Get(m, id).tag = "Some" THEN Append(lista, Get(m, id).val)
                 ELSE lista)

\* The Vec that listar_contatos returns in the current state.
ListaContatos == Coletar(contatos, 0, next_contato_id, <<>>)

\* The two checks on every argument tuple of the model, computed once.
ErroCriarContatoDe ==
    [inp \in ContatoInputs \cup ContatoVariados \cup ContatoCombinacoes |->
        ErroCriarContato(inp)]

ErroAtualizarContatoDe ==
    [inp \in ContatoInputs \cup ContatoCombinacoes |-> ErroAtualizarContato(inp)]

\* Mutant of criar_contato: the identifier is taken from the counter before
\* the checks, so a call that fails validation consumes it.
criar_contato_consome_id(inp) ==
    /\ op' = [name |-> "criar_contato", id |-> -1, inp |-> inp]
    /\ LET e == ErroCriarContatoDe[inp]
           id == next_contato_id
           soma == CheckedAdd1(next_contato_id)
       IN  IF soma.tag = "None"
           THEN /\ ret' = Panic
                /\ UNCHANGED <<store, hist>>
           ELSE IF e # Valido
           THEN /\ ret' = Err(e)
                /\ next_contato_id' = soma.val
                /\ UNCHANGED <<contatos, compromissos, next_compromisso_id, hist>>
           ELSE /\ next_contato_id' = soma.val
                /\ contatos' = Insert(contatos, id, Contato(inp))
                /\ ret' = Ok(id)
                /\ criados_contato' = Append(criados_contato, id)
                /\ UNCHANGED <<compromissos, next_compromisso_id, criados_compromisso,
                               deletados_contato, deletados_compromisso>>

criar_contato(inp) ==
    /\ op' = [name |-> "criar_contato", id |-> -1, inp |-> inp]
    /\ LET e == ErroCriarContatoDe[inp]
           id == next_contato_id
           soma == CheckedAdd1(next_contato_id)
       IN  IF e # Valido
           THEN /\ ret' = Err(e)
                /\ UNCHANGED <<store, hist>>
           ELSE IF soma.tag = "None"
           THEN /\ ret' = Panic
                /\ UNCHANGED <<store, hist>>
           ELSE /\ next_contato_id' = soma.val
                /\ contatos' = Insert(contatos, id, Contato(inp))
                /\ ret' = Ok(id)
                /\ criados_contato' = Append(criados_contato, id)
                /\ UNCHANGED <<compromissos, next_compromisso_id, criados_compromisso,
                               deletados_contato, deletados_compromisso>>

ler_contato(id) ==
    /\ op' = [name |-> "ler_contato", id |-> id, inp |-> <<>>]
    /\ ret' = Get(contatos, id)
    /\ UNCHANGED <<store, hist>>

\* Mutant of atualizar_contato: the record is looked up before the fields
\* are checked.
atualizar_contato_existencia_primeiro(id, inp) ==
    /\ op' = [name |-> "atualizar_contato", id |-> id, inp |-> inp]
    /\ LET e == ErroAtualizarContatoDe[inp]
           r == AtualizarRegistroContato(contatos, id, inp)
       IN  IF ~Contains(contatos, id)
           THEN /\ ret' = Err(MsgContatoNaoEncontrado)
                /\ UNCHANGED <<store, hist>>
           ELSE IF e # Valido
           THEN /\ ret' = Err(e)
                /\ UNCHANGED <<store, hist>>
           ELSE /\ contatos' = r.m
                /\ ret' = r.ret
                /\ UNCHANGED <<compromissos, next_contato_id, next_compromisso_id, hist>>

atualizar_contato(id, inp) ==
    /\ op' = [name |-> "atualizar_contato", id |-> id, inp |-> inp]
    /\ LET e == ErroAtualizarContatoDe[inp]
           r == AtualizarRegistroContato(contatos, id, inp)
       IN  IF e # Valido
           THEN /\ ret' = Err(e)
                /\ UNCHANGED <<store, hist>>
           ELSE /\ contatos' = r.m
                /\ ret' = r.ret
                /\ UNCHANGED <<compromissos, next_contato_id, next_compromisso_id, hist>>

\* Mutant of deletar_contato: deleting the last identifier issued gives it back
\* to the counter.
deletar_contato_devolve_id(id) ==
    /\ op' = [name |-> "deletar_contato", id |-> id, inp |-> <<>>]
    /\ LET r == DeletarRegistroContato(contatos, id)
       IN  /\ contatos' = r.m
           /\ ret' = Bool(r.ret)
           /\ deletados_contato' =
                  IF r.ret THEN deletados_contato \cup {id} ELSE deletados_contato
           /\ next_contato_id' =
                  IF r.ret /\ id + 1 = next_contato_id THEN id ELSE next_contato_id
    /\ UNCHANGED <<compromissos, next_compromisso_id,
                   criados_contato, criados_compromisso, deletados_compromisso>>

\* Mutant of deletar_contato: only the account that created the contact may
\* delete it.
deletar_contato_so_criador(id) ==
    /\ op' = [name |-> "deletar_contato", id |-> id, inp |-> <<>>]
    /\ LET r == IF \E i \in 1..Len(criados_contato) :
                      criados_contato[i] = id /\ criador_contato[i] = caller'
                THEN DeletarRegistroContato(contatos, id)
                ELSE [m |-> contatos, ret |-> FALSE]
       IN  /\ contatos' = r.m
           /\ ret' = Bool(r.ret)
           /\ deletados_contato' =
                  IF r.ret THEN deletados_contato \cup {id} ELSE deletados_contato
    /\ UNCHANGED <<compromissos, next_contato_id, next_compromisso_id,
                   criados_contato, criados_compromisso, deletados_compromisso>>

deletar_contato(id) ==
    /\ op' = [name |-> "deletar_contato", id |-> id, inp |-> <<>>]
    /\ LET r == DeletarRegistroContato(contatos, id)
       IN  /\ contatos' = r.m
           /\ ret' = Bool(r.ret)
           /\ deletados_contato' =
                  IF r.ret THEN deletados_contato \cup {id} ELSE deletados_contato
    /\ UNCHANGED <<compromissos, next_contato_id, next_compromisso_id,
                   criados_contato, criados_compromisso, deletados_compromisso>>

listar_contatos ==
    /\ op' = [name |-> "listar_contatos", id |-> -1, inp |-> <<>>]
    /\ ret' = Vec(ListaContatos)
    /\ UNCHANGED <<store, hist>>

(***************************************************************************)
(* Compromissos.                                                           *)
(***************************************************************************)
\* Mutant of ErroCriarCompromisso: a further check refuses a negative duracao.
ErroCriarCompromissoDuracaoNegativa(inp) ==
    IF inp.titulo = <<>> THEN MsgTituloVazio
    ELSE IF ~validar_data(inp.data) THEN MsgDataInvalida
    ELSE IF ~validar_hora(inp.hora) THEN MsgHoraInvalida
    ELSE IF inp.duracao < 0 THEN MsgHoraInvalida
    ELSE Valido

\* The checks of criar_compromisso, in the order of the code.
ErroCriarCompromisso(inp) ==
    IF inp.titulo = <<>> THEN MsgTituloVazio
    ELSE IF ~validar_data(inp.data) THEN MsgDataInvalida
    ELSE IF ~validar_hora(inp.hora) THEN MsgHoraInvalida
    ELSE Valido

\* Mutant of ErroAtualizarCompromisso: the date is not checked.
ErroAtualizarCompromissoSemData(inp) ==
    IF inp.titulo = <<>> THEN MsgTituloVazio
    ELSE IF ~validar_hora(inp.hora) THEN MsgHoraInvalida
    ELSE Valido

ErroAtualizarCompromisso(inp) ==
    IF inp.titulo = <<>> THEN MsgTituloVazio
    ELSE IF ~validar_data(inp.data) THEN MsgDataInvalida
    ELSE IF ~validar_hora(inp.hora) THEN MsgHoraInvalida
    ELSE Valido

\* let compromisso = Compromisso { titulo, data, hora, prioridade, duracao }
Compromisso(inp) ==
    [titulo |-> inp.titulo, data |-> inp.data, hora |-> inp.hora,
     prioridade |-> inp.prioridade, duracao |-> inp.duracao]

\* Mutant of CompromissoAtualizado: duracao is not assigned.
CompromissoAtualizadoSemDuracao(compromisso, inp) ==
    [compromisso EXCEPT !.titulo = inp.titulo, !.data = inp.data, !.hora = inp.hora,
                        !.prioridade = inp.prioridade]

\* The assignments of atualizar_compromisso to the record it read.
CompromissoAtualizado(compromisso, inp) ==
    [compromisso EXCEPT !.titulo = inp.titulo, !.data = inp.data, !.hora = inp.hora,
                        !.prioridade = inp.prioridade, !.duracao = inp.duracao]

\* Mutant of AtualizarRegistroCompromisso: an absent identifier gets the record.
AtualizarRegistroCompromissoUpsert(m, id, inp) ==
    [m |-> Insert(m, id, Compromisso(inp)), ret |-> Ok(TRUE)]

AtualizarRegistroCompromisso(m, id, inp) ==
    IF Get(m, id).tag = "Some"
    THEN [m |-> Insert(m, id, CompromissoAtualizado(Get(m, id).val, inp)),
          ret |-> Ok(TRUE)]
    ELSE [m |-> m, ret |-> Err(MsgCompromissoNaoEncontrado)]

DeletarRegistroCompromisso(m, id) ==
    IF Contains(m, id)
    THEN [m |-> Remove(m, id), ret |-> TRUE]
    ELSE [m |-> m, ret |-> FALSE]

\* Mutant of ListaCompromissos: the loop stops one identifier early.
ListaCompromissosMenosUm == Coletar(compromissos, 0, next_compromisso_id - 1, <<>>)

\* The Vec that listar_compromissos returns in the current state.
ListaCompromissos == Coletar(compromissos, 0, next_compromisso_id, <<>>)

\* The two checks on every argument tuple of the model, computed once.
ErroCriarCompromissoDe ==
    [inp \in CompromissoInputs \cup CompromissoVariados \cup CompromissoCombinacoes |->
        ErroCriarCompromisso(inp)]

ErroAtualizarCompromissoDe ==
    [inp \in CompromissoInputs \cup CompromissoCombinacoes |->
        ErroAtualizarCompromisso(inp)]

\* Mutant of criar_compromisso: the increment is applied to the counter of the
\* contacts.
criar_compromisso_contador_errado(inp) ==
    /\ op' = [name |-> "criar_compromisso", id |-> -1, inp |-> inp]
    /\ LET e == ErroCriarCompromissoDe[inp]
           id == next_compromisso_id
           soma == CheckedAdd1(next_contato_id)
       IN  IF e # Valido
           THEN /\ ret' = Err(e)
                /\ UNCHANGED <<store, hist>>
           ELSE IF soma.tag = "None"
           THEN /\ ret' = Panic
                /\ UNCHANGED <<store, hist>>
           ELSE /\ next_contato_id' = soma.val
                /\ compromissos' = Insert(compromissos, id, Compromisso(inp))
                /\ ret' = Ok(id)
                /\ criados_compromisso' = Append(criados_compromisso, id)
                /\ UNCHANGED <<contatos, next_compromisso_id, criados_contato,
                               deletados_contato, deletados_compromisso>>

criar_compromisso(inp) ==
    /\ op' = [name |-> "criar_compromisso", id |-> -1, inp |-> inp]
    /\ LET e == ErroCriarCompromissoDe[inp]
           id == next_compromisso_id
           soma == CheckedAdd1(next_compromisso_id)
       IN  IF e # Valido
           THEN /\ ret' = Err(e)
                /\ UNCHANGED <<store, hist>>
           ELSE IF soma.tag = "None"
           THEN /\ ret' = Panic
                /\ UNCHANGED <<store, hist>>
           ELSE /\ next_compromisso_id' = soma.val
                /\ compromissos' = Insert(compromissos, id, Compromisso(inp))
                /\ ret' = Ok(id)
                /\ criados_compromisso' = Append(criados_compromisso, id)
                /\ UNCHANGED <<contatos, next_contato_id, criados_contato,
                               deletados_contato, deletados_compromisso>>

\* Mutant of ler_compromisso: the record read is taken out of storage.
ler_compromisso_consome(id) ==
    /\ op' = [name |-> "ler_compromisso", id |-> id, inp |-> <<>>]
    /\ ret' = Get(compromissos, id)
    /\ compromissos' = Remove(compromissos, id)
    /\ UNCHANGED <<contatos, next_contato_id, next_compromisso_id, hist>>

ler_compromisso(id) ==
    /\ op' = [name |-> "ler_compromisso", id |-> id, inp |-> <<>>]
    /\ ret' = Get(compromissos, id)
    /\ UNCHANGED <<store, hist>>

atualizar_compromisso(id, inp) ==
    /\ op' = [name |-> "atualizar_compromisso", id |-> id, inp |-> inp]
    /\ LET e == ErroAtualizarCompromissoDe[inp]
           r == AtualizarRegistroCompromisso(compromissos, id, inp)
       IN  IF e # Valido
           THEN /\ ret' = Err(e)
                /\ UNCHANGED <<store, hist>>
           ELSE /\ compromissos' = r.m
                /\ ret' = r.ret
                /\ UNCHANGED <<contatos, next_contato_id, next_compromisso_id, hist>>

\* Mutant of deletar_compromisso: deleting the last identifier issued gives it
\* back to the counter.
deletar_compromisso_devolve_id(id) ==
    /\ op' = [name |-> "deletar_compromisso", id |-> id, inp |-> <<>>]
    /\ LET r == DeletarRegistroCompromisso(compromissos, id)
       IN  /\ compromissos' = r.m
           /\ ret' = Bool(r.ret)
           /\ deletados_compromisso' =
                  IF r.ret THEN deletados_compromisso \cup {id}
                  ELSE deletados_compromisso
           /\ next_compromisso_id' =
                  IF r.ret /\ id + 1 = next_compromisso_id THEN id
                  ELSE next_compromisso_id
    /\ UNCHANGED <<contatos, next_contato_id,
                   criados_contato, criados_compromisso, deletados_contato>>

deletar_compromisso(id) ==
    /\ op' = [name |-> "deletar_compromisso", id |-> id, inp |-> <<>>]
    /\ LET r == DeletarRegistroCompromisso(compromissos, id)
       IN  /\ compromissos' = r.m
           /\ ret' = Bool(r.ret)
           /\ deletados_compromisso' =
                  IF r.ret THEN deletados_compromisso \cup {id}
                  ELSE deletados_compromisso
    /\ UNCHANGED <<contatos, next_contato_id, next_compromisso_id,
                   criados_contato, criados_compromisso, deletados_contato>>

listar_compromissos ==
    /\ op' = [name |-> "listar_compromissos", id |-> -1, inp |-> <<>>]
    /\ ret' = Vec(ListaCompromissos)
    /\ UNCHANGED <<store, hist>>

(***************************************************************************)
(* The specification: Agenda::new(), then any sequence of calls.           *)
(***************************************************************************)
(***************************************************************************)
(* The sender of a message.  No message reads it; it is recorded beside    *)
(* the call, and for each successful create in the order of the creates.   *)
(***************************************************************************)
\* The account that instantiates the contract and, in Spec, sends every message.
Deployer == "alice"

\* The accounts that send messages when several callers share the contract.
Callers == {"alice", "bob"}

\* The message of this step is sent by c.
De(c) == caller' = c

\* The sender of the message of this step is recorded if it created a record.
Criador ==
    /\ criador_contato' =
          IF op'.name = "criar_contato" /\ ret'.tag = "Ok"
          THEN Append(criador_contato, caller') ELSE criador_contato
    /\ criador_compromisso' =
          IF op'.name = "criar_compromisso" /\ ret'.tag = "Ok"
          THEN Append(criador_compromisso, caller') ELSE criador_compromisso

Init ==
    /\ contatos = MappingDefault
    /\ compromissos = MappingDefault
    /\ next_contato_id = 0
    /\ next_compromisso_id = 0
    /\ op = [name |-> "new", id |-> -1, inp |-> <<>>]
    /\ ret = [tag |-> "Self", val |-> "new"]
    /\ criados_contato = <<>>
    /\ criados_compromisso = <<>>
    /\ deletados_contato = {}
    /\ deletados_compromisso = {}
    /\ caller = Deployer
    /\ criador_contato = <<>>
    /\ criador_compromisso = <<>>

Next ==
    \/ \E inp \in ContatoInputs : De(Deployer) /\ criar_contato(inp) /\ Criador
    \/ \E id \in IdArgs : De(Deployer) /\ ler_contato(id) /\ Criador
    \/ \E id \in IdArgs, inp \in ContatoInputs : De(Deployer) /\ atualizar_contato(id, inp) /\ Criador
    \/ \E id \in IdArgs : De(Deployer) /\ deletar_contato(id) /\ Criador
    \/ De(Deployer) /\ listar_contatos /\ Criador
    \/ \E inp \in CompromissoInputs : De(Deployer) /\ criar_compromisso(inp) /\ Criador
    \/ \E id \in IdArgs : De(Deployer) /\ ler_compromisso(id) /\ Criador
    \/ \E id \in IdArgs, inp \in CompromissoInputs :
          De(Deployer) /\ atualizar_compromisso(id, inp) /\ Criador
    \/ \E id \in IdArgs : De(Deployer) /\ deletar_compromisso(id) /\ Criador
    \/ De(Deployer) /\ listar_compromissos /\ Criador

Spec == Init /\ [][Next]_vars

\* The arguments of the messages when several callers share the contract:
\* two valid tuples and one invalid for contacts, one of each for appointments.
ContatoInputsCallers ==
    { ContatoArgs(Ana, Tel555, 20, D_01_01_2000, "Amigo"),
      ContatoArgs(Bob, Tel777, 30, D_29_02_2024, "Familiar"),
      ContatoArgs(Ana, Vazio, 20, D_01_01_2000, "Colega") }

CompromissoInputsCallers ==
    { CompromissoArgs(Reuniao, D_01_01_2000, H_23_59, "Alta", 60),
      CompromissoArgs(Reuniao, D_29_02_2023, H_23_59, "Media", 0) }

\* The messages on contacts and the creation of appointments, each sent by
\* any of several callers.
NextCallers ==
    \/ \E c \in Callers, inp \in ContatoInputsCallers : De(c) /\ criar_contato(inp) /\ Criador
    \/ \E c \in Callers, id \in IdArgs : De(c) /\ ler_contato(id) /\ Criador
    \/ \E c \in Callers, id \in IdArgs, inp \in ContatoInputsCallers :
          De(c) /\ atualizar_contato(id, inp) /\ Criador
    \/ \E c \in Callers, id \in IdArgs : De(c) /\ deletar_contato(id) /\ Criador
    \/ \E c \in Callers : De(c) /\ listar_contatos /\ Criador
    \/ \E c \in Callers, inp \in CompromissoInputsCallers :
          De(c) /\ criar_compromisso(inp) /\ Criador

SpecCallers == Init /\ [][NextCallers]_vars

\* Creates and updates, with every combination of valid and invalid fields.
NextErros ==
    \/ \E inp \in ContatoCombinacoes : De(Deployer) /\ criar_contato(inp) /\ Criador
    \/ \E id \in IdArgs, inp \in ContatoCombinacoes :
          De(Deployer) /\ atualizar_contato(id, inp) /\ Criador
    \/ \E inp \in CompromissoCombinacoes : De(Deployer) /\ criar_compromisso(inp) /\ Criador
    \/ \E id \in IdArgs, inp \in CompromissoCombinacoes :
          De(Deployer) /\ atualizar_compromisso(id, inp) /\ Criador

SpecErros == Init /\ [][NextErros]_vars

(***************************************************************************)
(* The creates statement by statement.  While a create runs, ret holds the *)
(* statement it has reached and op.id the local id; messages do not        *)
(* overlap: a create starts only when no message is running.               *)
(***************************************************************************)
Executando(passo) == [tag |-> "Executando", val |-> passo]

\* The checks of criar_contato, on entry.
criar_contato_validar(inp) ==
    /\ ret.tag # "Executando"
    /\ op' = [name |-> "criar_contato", id |-> -1, inp |-> inp]
    /\ ret' = IF ErroCriarContatoDe[inp] # Valido
              THEN Err(ErroCriarContatoDe[inp]) ELSE Executando("validado")
    /\ UNCHANGED <<store, hist>>

\* let id = self.next_contato_id; let contato = Contato { .. };
criar_contato_ler_contador ==
    /\ op.name = "criar_contato"
    /\ ret = Executando("validado")
    /\ op' = [op EXCEPT !.id = next_contato_id]
    /\ ret' = Executando("id_lido")
    /\ UNCHANGED <<store, hist>>

\* Mutant of criar_contato_incrementar: the record is inserted by the
\* statement that advances the counter.
criar_contato_incrementar_e_inserir ==
    /\ op.name = "criar_contato"
    /\ ret = Executando("id_lido")
    /\ LET soma == CheckedAdd1(next_contato_id)
       IN  IF soma.tag = "None"
           THEN /\ ret' = Panic
                /\ UNCHANGED <<store, hist>>
           ELSE /\ next_contato_id' = soma.val
                /\ contatos' = Insert(contatos, op.id, Contato(op.inp))
                /\ ret' = Executando("incrementado")
                /\ UNCHANGED <<compromissos, next_compromisso_id, hist>>
    /\ UNCHANGED op

\* self.next_contato_id = self.next_contato_id.checked_add(1).expect("Overflow");
criar_contato_incrementar ==
    /\ op.name = "criar_contato"
    /\ ret = Executando("id_lido")
    /\ LET soma == CheckedAdd1(next_contato_id)
       IN  IF soma.tag = "None"
           THEN /\ ret' = Panic
                /\ UNCHANGED <<store, hist>>
           ELSE /\ next_contato_id' = soma.val
                /\ ret' = Executando("incrementado")
                /\ UNCHANGED <<contatos, compromissos, next_compromisso_id, hist>>
    /\ UNCHANGED op

\* self.contatos.insert(id, &contato); Ok(id)
criar_contato_inserir ==
    /\ op.name = "criar_contato"
    /\ ret = Executando("incrementado")
    /\ contatos' = Insert(contatos, op.id, Contato(op.inp))
    /\ ret' = Ok(op.id)
    /\ criados_contato' = Append(criados_contato, op.id)
    /\ UNCHANGED <<op, compromissos, next_contato_id, next_compromisso_id,
                   criados_compromisso, deletados_contato, deletados_compromisso>>

\* The checks of criar_compromisso, on entry.
criar_compromisso_validar(inp) ==
    /\ ret.tag # "Executando"
    /\ op' = [name |-> "criar_compromisso", id |-> -1, inp |-> inp]
    /\ ret' = IF ErroCriarCompromissoDe[inp] # Valido
              THEN Err(ErroCriarCompromissoDe[inp]) ELSE Executando("validado")
    /\ UNCHANGED <<store, hist>>

\* let id = self.next_compromisso_id; let compromisso = Compromisso { .. };
criar_compromisso_ler_contador ==
    /\ op.name = "criar_compromisso"
    /\ ret = Executando("validado")
    /\ op' = [op EXCEPT !.id = next_compromisso_id]
    /\ ret' = Executando("id_lido")
    /\ UNCHANGED <<store, hist>>

\* self.next_compromisso_id = self.next_compromisso_id.checked_add(1).expect("Overflow");
criar_compromisso_incrementar ==
    /\ op.name = "criar_compromisso"
    /\ ret = Executando("id_lido")
    /\ LET soma == CheckedAdd1(next_compromisso_id)
       IN  IF soma.tag = "None"
           THEN /\ ret' = Panic
                /\ UNCHANGED <<store, hist>>
           ELSE /\ next_compromisso_id' = soma.val
                /\ ret' = Executando("incrementado")
                /\ UNCHANGED <<contatos, compromissos, next_contato_id, hist>>
    /\ UNCHANGED op

\* self.compromissos.insert(id, &compromisso); Ok(id)
criar_compromisso_inserir ==
    /\ op.name = "criar_compromisso"
    /\ ret = Executando("incrementado")
    /\ compromissos' = Insert(compromissos, op.id, Compromisso(op.inp))
    /\ ret' = Ok(op.id)
    /\ criados_compromisso' = Append(criados_compromisso, op.id)
    /\ UNCHANGED <<op, contatos, next_contato_id, next_compromisso_id,
                   criados_contato, deletados_contato, deletados_compromisso>>

NextPassos ==
    \/ \E inp \in ContatoVariados : De(Deployer) /\ criar_contato_validar(inp) /\ Criador
    \/ De(Deployer) /\ criar_contato_ler_contador /\ Criador
    \/ De(Deployer) /\ criar_contato_incrementar /\ Criador
    \/ De(Deployer) /\ criar_contato_inserir /\ Criador
    \/ \E inp \in CompromissoVariados : De(Deployer) /\ criar_compromisso_validar(inp) /\ Criador
    \/ De(Deployer) /\ criar_compromisso_ler_contador /\ Criador
    \/ De(Deployer) /\ criar_compromisso_incrementar /\ Criador
    \/ De(Deployer) /\ criar_compromisso_inserir /\ Criador

SpecPassos == Init /\ [][NextPassos]_vars

(***************************************************************************)
(* The listings iteration by iteration.  While a listing runs, ret holds   *)
(* the loop variable id and the Vec built so far; creates, reads and       *)
(* deletes are taken whole and start only when no message is running.      *)
(***************************************************************************)
Listando(id, lista) == [tag |-> "Executando", val |-> [id |-> id, lista |-> lista]]

Parado == ret.tag # "Executando"

\* let mut lista = Vec::new();
listar_contatos_iniciar ==
    /\ Parado
    /\ op' = [name |-> "listar_contatos", id |-> -1, inp |-> <<>>]
    /\ ret' = Listando(0, <<>>)
    /\ UNCHANGED <<store, hist>>

\* Mutant of listar_contatos_iterar: past the last identifier the loop
\* variable goes back to 0.
listar_contatos_iterar_em_circulo ==
    /\ op.name = "listar_contatos"
    /\ ret.tag = "Executando"
    /\ ret.val.id < next_contato_id
    /\ ret' = Listando((ret.val.id + 1) % next_contato_id, ret.val.lista)
    /\ UNCHANGED <<op, store, hist>>

\* One iteration of for id in 0..self.next_contato_id.
listar_contatos_iterar ==
    /\ op.name = "listar_contatos"
    /\ ret.tag = "Executando"
    /\ ret.val.id < next_contato_id
    /\ ret' = Listando(ret.val.id + 1,
                       IF Get(contatos, ret.val.id).tag = "Some"
                       THEN Append(ret.val.lista, Get(contatos, ret.val.id).val)
                       ELSE ret.val.lista)
    /\ UNCHANGED <<op, store, hist>>

\* The range is exhausted: lista is returned.
listar_contatos_retornar ==
    /\ op.name = "listar_contatos"
    /\ ret.tag = "Executando"
    /\ ret.val.id >= next_contato_id
    /\ ret' = Vec(ret.val.lista)
    /\ UNCHANGED <<op, store, hist>>

listar_compromissos_iniciar ==
    /\ Parado
    /\ op' = [name |-> "listar_compromissos", id |-> -1, inp |-> <<>>]
    /\ ret' = Listando(0, <<>>)
    /\ UNCHANGED <<store, hist>>

\* One iteration of for id in 0..self.next_compromisso_id.
listar_compromissos_iterar ==
    /\ op.name = "listar_compromissos"
    /\ ret.tag = "Executando"
    /\ ret.val.id < next_compromisso_id
    /\ ret' = Listando(ret.val.id + 1,
                       IF Get(compromissos, ret.val.id).tag = "Some"
                       THEN Append(ret.val.lista, Get(compromissos, ret.val.id).val)
                       ELSE ret.val.lista)
    /\ UNCHANGED <<op, store, hist>>

listar_compromissos_retornar ==
    /\ op.name = "listar_compromissos"
    /\ ret.tag = "Executando"
    /\ ret.val.id >= next_compromisso_id
    /\ ret' = Vec(ret.val.lista)
    /\ UNCHANGED <<op, store, hist>>

\* A running listing takes its next iteration or returns.
ContinuarListagem ==
    De(Deployer)
    /\ (\/ listar_contatos_iterar
        \/ listar_contatos_retornar
        \/ listar_compromissos_iterar
        \/ listar_compromissos_retornar)
    /\ Criador

NextListar ==
    \/ \E inp \in ContatoInputsCallers :
          Parado /\ De(Deployer) /\ criar_contato(inp) /\ Criador
    \/ \E id \in IdArgs : Parado /\ De(Deployer) /\ ler_contato(id) /\ Criador
    \/ \E id \in IdArgs : Parado /\ De(Deployer) /\ deletar_contato(id) /\ Criador
    \/ \E inp \in CompromissoInputsCallers :
          Parado /\ De(Deployer) /\ criar_compromisso(inp) /\ Criador
    \/ \E id \in IdArgs : Parado /\ De(Deployer) /\ deletar_compromisso(id) /\ Criador
    \/ De(Deployer) /\ listar_contatos_iniciar /\ Criador
    \/ De(Deployer) /\ listar_contatos_iterar /\ Criador
    \/ De(Deployer) /\ listar_contatos_retornar /\ Criador
    \/ De(Deployer) /\ listar_compromissos_iniciar /\ Criador
    \/ De(Deployer) /\ listar_compromissos_iterar /\ Criador
    \/ De(Deployer) /\ listar_compromissos_retornar /\ Criador

\* Where the running listing stands: its loop variable, or -1 when no
\* listing runs.  Every step of a listing changes it.
PosicaoDaListagem == IF ret.tag = "Executando" THEN ret.val.id ELSE -1

\* A message that has started runs on: nothing suspends a listing between
\* two iterations.
SpecListar ==
    Init /\ [][NextListar]_vars /\ WF_PosicaoDaListagem(ContinuarListagem)

\* Creates only, with the varied arguments.
NextCriar ==
    \/ \E inp \in ContatoVariados : De(Deployer) /\ criar_contato(inp) /\ Criador
    \/ \E inp \in CompromissoVariados : De(Deployer) /\ criar_compromisso(inp) /\ Criador

SpecCriar == Init /\ [][NextCriar]_vars

(***************************************************************************)
(* Properties.                                                             *)
(***************************************************************************)
\* How many times identifier id was returned by the creates recorded in s.
Vezes(s, id) == Cardinality({k \in 1..Len(s) : s[k] = id})

\* C1: the k-th successful criar_contato (k = 0, 1, ...) returns identifier k,
\* whatever other calls come in between, and likewise criar_compromisso with
\* its own counter; the identifier a create has just returned is the number
\* of successful creates before it.
C1_IdentificadoresEmOrdem ==
    /\ \A k \in 1..Len(criados_contato) : criados_contato[k] = k - 1
    /\ \A k \in 1..Len(criados_compromisso) : criados_compromisso[k] = k - 1
    /\ (op.name = "criar_contato" /\ ret.tag = "Ok")
           => ret.val = Len(criados_contato) - 1
    /\ (op.name = "criar_compromisso" /\ ret.tag = "Ok")
           => ret.val = Len(criados_compromisso) - 1

\* Two contacts were created, the second just now with identifier 1, while
\* an appointment was created and deleted in between or before.
C1_Witness ==
    /\ op.name = "criar_contato"
    /\ ret = Ok(1)
    /\ criados_contato = <<0, 1>>
    /\ deletados_compromisso # {}

\* C2: an identifier whose delete returned true stays a gap: a read of it
\* finds no record in any later state, and it was issued exactly once (no
\* create returned it again).
C2_IdentificadorNuncaReusado ==
    /\ \A id \in deletados_contato :
           /\ Get(contatos, id) = None
           /\ Vezes(criados_contato, id) = 1
    /\ \A id \in deletados_compromisso :
           /\ Get(compromissos, id) = None
           /\ Vezes(criados_compromisso, id) = 1
    /\ (op.name = "ler_contato" /\ op.id \in deletados_contato) => ret = None
    /\ (op.name = "ler_compromisso" /\ op.id \in deletados_compromisso) => ret = None

\* Identifier 0 was deleted, a later create returned 1, and 0 is read: absent.
C2_Witness ==
    /\ op.name = "ler_contato"
    /\ op.id = 0
    /\ ret = None
    /\ 0 \in deletados_contato
    /\ criados_contato = <<0, 1>>
    /\ Contains(contatos, 1)

\* The argument tuples of the model that break a field rule of their kind.
ContatoInvalidos ==
    {inp \in ContatoInputs :
        inp.nome = <<>> \/ inp.telefone = <<>> \/ ~validar_data(inp.data_aniversario)}

CompromissoInvalidos ==
    {inp \in CompromissoInputs :
        inp.titulo = <<>> \/ ~validar_data(inp.data) \/ ~validar_hora(inp.hora)}

MsgValidacaoContato == {MsgNomeVazio, MsgTelefoneVazio, MsgAniversarioInvalido}

MsgValidacaoCompromisso == {MsgTituloVazio, MsgDataInvalida, MsgHoraInvalida}

\* The record r holds exactly the five fields of the arguments inp.
MesmoContato(r, inp) ==
    /\ r.nome = inp.nome
    /\ r.telefone = inp.telefone
    /\ r.idade = inp.idade
    /\ r.data_aniversario = inp.data_aniversario
    /\ r.categoria = inp.categoria

MesmoCompromisso(r, inp) ==
    /\ r.titulo = inp.titulo
    /\ r.data = inp.data
    /\ r.hora = inp.hora
    /\ r.prioridade = inp.prioridade
    /\ r.duracao = inp.duracao

\* C3: when a create has just returned identifier id, a read of id as the
\* next call returns a record with exactly the five arguments of the create;
\* the first successful create of a kind returns 0.
C3_CriarLerRoundTrip ==
    [][ /\ (/\ op.name = "criar_contato" /\ ret.tag = "Ok"
            /\ op'.name = "ler_contato" /\ op'.id = ret.val)
           => (ret'.tag = "Some" /\ MesmoContato(ret'.val, op.inp))
        /\ (/\ op.name = "criar_compromisso" /\ ret.tag = "Ok"
            /\ op'.name = "ler_compromisso" /\ op'.id = ret.val)
           => (ret'.tag = "Some" /\ MesmoCompromisso(ret'.val, op.inp))
        /\ (criados_contato = <<>> /\ op'.name = "criar_contato" /\ ret'.tag = "Ok")
           => ret'.val = 0
        /\ (/\ criados_compromisso = <<>>
            /\ op'.name = "criar_compromisso" /\ ret'.tag = "Ok")
           => ret'.val = 0
      ]_vars

\* The second contact created (identifier 1) has been read back with the
\* fields it was created with, the first one holding other values.
C3_Witness ==
    /\ op.name = "ler_contato"
    /\ op.id = 1
    /\ criados_contato = <<0, 1>>
    /\ ret.tag = "Some"
    /\ MesmoContato(ret.val, ContatoArgs(Bob, Tel777, 30, D_29_02_2024, "Familiar"))
    /\ Get(contatos, 0) = Some(Contato(ContatoArgs(Ana, Tel555, 20, D_01_01_2000, "Amigo")))

\* C4: a create whose arguments break a field rule returns an error and
\* leaves both collections and both counters as they were; a successful
\* create that follows it gets the identifier not consumed by the failure.
C4_CriarInvalidoNadaMuda ==
    [][ /\ (op'.name = "criar_contato" /\ op'.inp \in ContatoInvalidos)
           => (ret'.tag = "Err" /\ UNCHANGED store)
        /\ (op'.name = "criar_compromisso" /\ op'.inp \in CompromissoInvalidos)
           => (ret'.tag = "Err" /\ UNCHANGED store)
        /\ (/\ op.name = "criar_contato" /\ ret.tag = "Err"
            /\ op'.name = "criar_contato" /\ ret'.tag = "Ok")
           => ret'.val = Len(criados_contato)
        /\ (/\ op.name = "criar_compromisso" /\ ret.tag = "Err"
            /\ op'.name = "criar_compromisso" /\ ret'.tag = "Ok")
           => ret'.val = Len(criados_compromisso)
      ]_vars

\* A create with an invalid date has failed on a store that holds a contact.
C4_Witness ==
    /\ op.name = "criar_contato"
    /\ op.inp \in ContatoInvalidos
    /\ ret.tag = "Err"
    /\ next_contato_id = 1
    /\ Contains(contatos, 0)

\* C5: an update of an existing identifier with arguments that break a field
\* rule returns a validation error and leaves the stored record, every other
\* record and both counters unchanged.
C5_AtualizarInvalidoNadaMuda ==
    [][ /\ (/\ op'.name = "atualizar_contato" /\ Contains(contatos, op'.id)
            /\ op'.inp \in ContatoInvalidos)
           => (/\ ret'.tag = "Err" /\ ret'.val \in MsgValidacaoContato
               /\ UNCHANGED store)
        /\ (/\ op'.name = "atualizar_compromisso" /\ Contains(compromissos, op'.id)
            /\ op'.inp \in CompromissoInvalidos)
           => (/\ ret'.tag = "Err" /\ ret'.val \in MsgValidacaoCompromisso
               /\ UNCHANGED store)
      ]_vars

\* An update with an empty telefone was refused for the stored contact 0.
C5_Witness ==
    /\ op.name = "atualizar_contato"
    /\ op.id = 0
    /\ op.inp.telefone = <<>>
    /\ ret = Err(MsgTelefoneVazio)
    /\ Contains(contatos, 0)

\* C6: an update with valid fields of an identifier that holds no record
\* (never issued, or deleted) returns the not-found error, stores nothing
\* under it, and leaves the collections and counters as they were: the
\* listing is the same before and after.
C6_AtualizarAusenteNaoCria ==
    [][ /\ (/\ op'.name = "atualizar_contato" /\ ~Contains(contatos, op'.id)
            /\ op'.inp \notin ContatoInvalidos)
           => (/\ ret' = Err(MsgContatoNaoEncontrado)
               /\ ~Contains(contatos', op'.id)
               /\ UNCHANGED store
               /\ ListaContatos' = ListaContatos)
        /\ (/\ op'.name = "atualizar_compromisso" /\ ~Contains(compromissos, op'.id)
            /\ op'.inp \notin CompromissoInvalidos)
           => (/\ ret' = Err(MsgCompromissoNaoEncontrado)
               /\ ~Contains(compromissos', op'.id)
               /\ UNCHANGED store
               /\ ListaCompromissos' = ListaCompromissos)
      ]_vars

\* A valid update of the deleted identifier 0 was refused as not found, while
\* contact 1 is stored.
C6_Witness ==
    /\ op.name = "atualizar_contato"
    /\ op.id = 0
    /\ 0 \in deletados_contato
    /\ op.inp \notin ContatoInvalidos
    /\ ret = Err(MsgContatoNaoEncontrado)
    /\ Contains(contatos, 1)

\* C7: an update with valid fields of a stored identifier returns Ok(true);
\* the record under that identifier then holds exactly the new fields (and a
\* read of it as the next call returns them); both counters, every other
\* record of the kind and the whole other collection are unchanged.
C7_AtualizarSubstituiTudo ==
    [][ /\ (/\ op'.name = "atualizar_contato" /\ Contains(contatos, op'.id)
            /\ op'.inp \notin ContatoInvalidos)
           => (/\ ret' = Ok(TRUE)
               /\ Get(contatos', op'.id).tag = "Some"
               /\ MesmoContato(Get(contatos', op'.id).val, op'.inp)
               /\ \A k \in Keys \ {op'.id} : Get(contatos', k) = Get(contatos, k)
               /\ UNCHANGED <<compromissos, next_contato_id, next_compromisso_id>>)
        /\ (/\ op'.name = "atualizar_compromisso" /\ Contains(compromissos, op'.id)
            /\ op'.inp \notin CompromissoInvalidos)
           => (/\ ret' = Ok(TRUE)
               /\ Get(compromissos', op'.id).tag = "Some"
               /\ MesmoCompromisso(Get(compromissos', op'.id).val, op'.inp)
               /\ \A k \in Keys \ {op'.id} : Get(compromissos', k) = Get(compromissos, k)
               /\ UNCHANGED <<contatos, next_contato_id, next_compromisso_id>>)
        /\ (/\ op.name = "atualizar_contato" /\ ret.tag = "Ok"
            /\ op'.name = "ler_contato" /\ op'.id = op.id)
           => (ret'.tag = "Some" /\ MesmoContato(ret'.val, op.inp))
        /\ (/\ op.name = "atualizar_compromisso" /\ ret.tag = "Ok"
            /\ op'.name = "ler_compromisso" /\ op'.id = op.id)
           => (ret'.tag = "Some" /\ MesmoCompromisso(ret'.val, op.inp))
      ]_vars

\* Appointment 0 was created once and has just been updated: it now holds
\* the fields of the second valid tuple, and appointment 1 holds the first.
C7_Witness ==
    /\ op.name = "atualizar_compromisso"
    /\ op.id = 0
    /\ ret = Ok(TRUE)
    /\ criados_compromisso = <<0, 1>>
    /\ Get(compromissos, 0) =
           Some(Compromisso(CompromissoArgs(Dentista, D_29_02_2024, H_00_00, "Baixa", -5)))
    /\ Get(compromissos, 1) =
           Some(Compromisso(CompromissoArgs(Reuniao, D_01_01_2000, H_23_59, "Alta", 60)))

\* The identifiers returned by the creates recorded in s.
Emitidos(s) == {s[k] : k \in 1..Len(s)}

\* C8: a delete returns a bool, never an error: true for an identifier that
\* holds a record, which a read then finds absent; false for an identifier
\* whose delete returned true before, whatever happened since; false for an
\* identifier that never held a record.
C8_DeletarIdempotente ==
    [][ /\ op'.name = "deletar_contato"
           => (/\ ret'.tag = "bool"
               /\ Contains(contatos, op'.id)
                     => (ret'.val = TRUE /\ Get(contatos', op'.id) = None)
               /\ op'.id \in deletados_contato => ret'.val = FALSE
               /\ op'.id \notin Emitidos(criados_contato) => ret'.val = FALSE)
        /\ op'.name = "deletar_compromisso"
           => (/\ ret'.tag = "bool"
               /\ Contains(compromissos, op'.id)
                     => (ret'.val = TRUE /\ Get(compromissos', op'.id) = None)
               /\ op'.id \in deletados_compromisso => ret'.val = FALSE
               /\ op'.id \notin Emitidos(criados_compromisso) => ret'.val = FALSE)
      ]_vars

\* Contact 0 was deleted before, another contact was created since, and a
\* further delete of 0 has returned false.
C8_Witness ==
    /\ op.name = "deletar_contato"
    /\ op.id = 0
    /\ ret = Bool(FALSE)
    /\ 0 \in deletados_contato
    /\ criados_contato = <<0, 1>>

\* The keys of m that hold a record.
Armazenados(m) == {k \in DOMAIN m : m[k].tag = "Some"}

\* The i-th smallest key that holds a record.
ChaveNaPosicao(m, i) ==
    CHOOSE k \in Armazenados(m) : Cardinality({j \in Armazenados(m) : j < k}) = i - 1

\* The sequence l holds the records stored in m, each once, by ascending key.
ListaExata(l, m) ==
    /\ Len(l) = Cardinality(Armazenados(m))
    /\ \A i \in 1..Len(l) : l[i] = m[ChaveNaPosicao(m, i)].val

\* C9: in every reachable state the listing of a kind is exactly the records
\* stored for it, each once, by ascending identifier, deleted identifiers
\* skipped; and that is what the list call has returned.
C9_ListaExataOrdenada ==
    /\ ListaExata(ListaContatos, contatos)
    /\ ListaExata(ListaCompromissos, compromissos)
    /\ op.name = "listar_contatos" => ret = Vec(ListaContatos)
    /\ op.name = "listar_compromissos" => ret = Vec(ListaCompromissos)

\* Two appointments were created, the first was deleted, and the listing
\* returned only the second.
C9_Witness ==
    /\ op.name = "listar_compromissos"
    /\ criados_compromisso = <<0, 1>>
    /\ deletados_compromisso = {0}
    /\ ret.tag = "Vec"
    /\ Len(ret.val) = 1
    /\ Some(ret.val[1]) = Get(compromissos, 1)

ContatoOps ==
    {"criar_contato", "ler_contato", "atualizar_contato", "deletar_contato",
     "listar_contatos"}

CompromissoOps ==
    {"criar_compromisso", "ler_compromisso", "atualizar_compromisso",
     "deletar_compromisso", "listar_compromissos"}

\* C10: every call on contacts, successful or not, leaves the collection and
\* the counter of the appointments unchanged, and every call on appointments
\* leaves the collection and the counter of the contacts unchanged.
C10_ColecoesIndependentes ==
    [][ /\ op'.name \in ContatoOps => UNCHANGED <<compromissos, next_compromisso_id>>
        /\ op'.name \in CompromissoOps => UNCHANGED <<contatos, next_contato_id>>
      ]_vars

\* An appointment has just been created while a contact is stored and the
\* counter of the contacts stands at 1.
C10_Witness ==
    /\ op.name = "criar_compromisso"
    /\ ret = Ok(1)
    /\ next_contato_id = 1
    /\ Contains(contatos, 0)
    /\ next_compromisso_id = 2

(***************************************************************************)
(* The validators alone: a text is drawn, then the validator is applied.   *)
(***************************************************************************)
\* The greatest length of the generated date texts and time texts.
MaxTextoLen == 6

MaxHoraLen == 4

\* The decimal digits of n, and the same padded to two digits.
RECURSIVE Dec(_)
Dec(n) == IF n < 10 THEN <<Digits[n + 1]>> ELSE Dec(n \div 10) \o <<Digits[(n % 10) + 1]>>

Dec2(n) == IF n < 10 THEN <<"0">> \o Dec(n) ELSE Dec(n)

TextoData(d, m, a) == d \o <<"/">> \o m \o <<"/">> \o a

TextoHora(h, m) == h \o <<":">> \o m

\* Every text of at most n characters of the alphabet.
Textos(alfabeto, n) == UNION {[1..k -> alfabeto] : k \in 0..n}

\* One more than u32::MAX.
Token4294967296 == <<"4", "2", "9", "4", "9", "6", "7", "2", "9", "6">>

DiaTokens == {Dec2(d) : d \in {0, 1, 15, 28, 29, 30, 31, 32}} \cup {<<"1">>, <<"+", "1">>}

MesTokens == {Dec2(m) : m \in 0..13} \cup {<<"2">>}

AnoTokens ==
    {Dec(a) : a \in {0, 1, 4, 100, 400, 1900, 2000, 2023, 2024, 2025}}
        \cup {Token4294967296}

DataTextos ==
    {TextoData(d, m, a) : d \in DiaTokens, m \in MesTokens, a \in AnoTokens}
        \cup Textos({"0", "1", "/", "a", "+"}, MaxTextoLen)

HoraTextos ==
    {TextoHora(Dec2(h), Dec2(m)) : h \in {0, 12, 23, 24, 99}, m \in {0, 59, 60}}
        \cup {TextoHora(Token4294967296, Dec2(0)), TextoHora(<<"+", "5">>, <<"a">>),
              TextoHora(<<"a", "b">>, <<"c", "d">>),
              TextoHora(Dec2(23), Dec2(59)) \o <<":">> \o Dec2(0)}
        \cup Textos({"2", "4", "6", ":", "a"}, MaxHoraLen)

InitValidar ==
    /\ contatos = MappingDefault
    /\ compromissos = MappingDefault
    /\ next_contato_id = 0
    /\ next_compromisso_id = 0
    /\ op \in {[name |-> "texto_data", id |-> -1, inp |-> t] : t \in DataTextos}
            \cup {[name |-> "texto_hora", id |-> -1, inp |-> t] : t \in HoraTextos}
    /\ ret = [tag |-> "Self", val |-> "new"]
    /\ criados_contato = <<>>
    /\ criados_compromisso = <<>>
    /\ deletados_contato = {}
    /\ deletados_compromisso = {}
    /\ caller = Deployer
    /\ criador_contato = <<>>
    /\ criador_compromisso = <<>>

\* Self::validar_data(&data) on the text drawn.
chamar_validar_data ==
    /\ op.name = "texto_data"
    /\ op' = [op EXCEPT !.name = "validar_data"]
    /\ ret' = Bool(validar_data(op.inp))
    /\ UNCHANGED <<store, hist>>

\* Self::validar_hora(&hora) on the text drawn.
chamar_validar_hora ==
    /\ op.name = "texto_hora"
    /\ op' = [op EXCEPT !.name = "validar_hora"]
    /\ ret' = Bool(validar_hora(op.inp))
    /\ UNCHANGED <<store, hist>>

NextValidar ==
    \/ De(Deployer) /\ chamar_validar_data /\ Criador
    \/ De(Deployer) /\ chamar_validar_hora /\ Criador

SpecValidar == InitValidar /\ [][NextValidar]_vars

(***************************************************************************)
(* What the texts mean, read without the parser of the code.               *)
(***************************************************************************)
\* The text has n separators sep, hence n + 1 tokens.
NumTokens(text, sep) == Cardinality({i \in 1..Len(text) : text[i] = sep}) + 1

\* The digits of a token, after an optional '+'.
Corpo(tok) == IF Len(tok) > 1 /\ tok[1] = "+" THEN Tail(tok) ELSE tok

\* The token is a number: at least one digit, only digits.
Numerico(tok) == Corpo(tok) # <<>> /\ \A i \in 1..Len(Corpo(tok)) : IsDigit(Corpo(tok)[i])

RECURSIVE SemZeros(_)
SemZeros(s) == IF s # <<>> /\ Head(s) = "0" THEN SemZeros(Tail(s)) ELSE s

\* a < b for digit texts of one length.
LexMenor(a, b) ==
    \E i \in 1..Len(a) :
        /\ \A j \in 1..(i - 1) : a[j] = b[j]
        /\ DigitVal(a[i]) < DigitVal(b[i])

\* The numeric token is at most u32::MAX = 4294967295.
CabeEmU32(tok) ==
    LET s == SemZeros(Corpo(tok))
    IN  Len(s) < 10 \/ (Len(s) = 10 /\ LexMenor(s, Token4294967296))

\* The value of a digit text, cut at 1000 (enough to compare with 12, 24, 31, 60).
RECURSIVE ValorCortado(_, _)
ValorCortado(s, acc) ==
    IF s = <<>> THEN acc
    ELSE LET v == acc * 10 + DigitVal(Head(s))
         IN  ValorCortado(Tail(s), IF v > 1000 THEN 1000 ELSE v)

Valor(tok) == ValorCortado(Corpo(tok), 0)

\* The value of a digit text modulo m.
RECURSIVE RestoDe(_, _, _)
RestoDe(s, m, acc) ==
    IF s = <<>> THEN acc ELSE RestoDe(Tail(s), m, (acc * 10 + DigitVal(Head(s))) % m)

Resto(tok, m) == RestoDe(Corpo(tok), m, 0)

Bissexto(ano) == Resto(ano, 4) = 0 /\ (Resto(ano, 100) # 0 \/ Resto(ano, 400) = 0)

DiasNoMes(mes, ano) ==
    IF Valor(mes) \in {4, 6, 9, 11} THEN 30
    ELSE IF Valor(mes) = 2 THEN (IF Bissexto(ano) THEN 29 ELSE 28)
    ELSE 31

TresNumericos(text) ==
    /\ NumTokens(text, "/") = 3
    /\ \A i \in 1..3 : Numerico(Split(text, "/")[i])

\* The calendar rule of C14 on three numeric tokens day/month/year.
DataCorreta(text) ==
    LET dia == Split(text, "/")[1]
        mes == Split(text, "/")[2]
        ano == Split(text, "/")[3]
    IN  /\ Valor(dia) >= 1
        /\ Valor(mes) \in 1..12
        /\ Valor(ano) >= 1
        /\ Valor(dia) <= DiasNoMes(mes, ano)

\* The dates C14 names, with the answer it gives for each.
ExemplosDeData ==
    { <<TextoData(Dec2(29), Dec2(2), Dec(2024)), TRUE>>,
      <<TextoData(Dec2(29), Dec2(2), Dec(2023)), FALSE>>,
      <<TextoData(Dec2(29), Dec2(2), Dec(1900)), FALSE>>,
      <<TextoData(Dec2(29), Dec2(2), Dec(2000)), TRUE>>,
      <<TextoData(Dec2(31), Dec2(4), Dec(2025)), FALSE>>,
      <<TextoData(Dec2(0), Dec2(1), Dec(2025)), FALSE>>,
      <<TextoData(Dec2(15), Dec2(13), Dec(2025)), FALSE>> }

\* C14 as stated: on every text of three numeric tokens day/month/year
\* validar_data answers exactly the calendar rule (day >= 1, month in 1..12,
\* year >= 1, day within the month, February by the leap-year rule), and the
\* named dates get the named answers.
C14_DataPorRegraDeCalendario ==
    op.name = "validar_data" =>
        /\ TresNumericos(op.inp) => ret = Bool(DataCorreta(op.inp))
        /\ \A e \in ExemplosDeData : op.inp = e[1] => ret = Bool(e[2])

\* C14 amended: the same, on the texts whose three numeric tokens are each
\* at most u32::MAX; a numeric token above u32::MAX is read as 0 and the
\* text is rejected.
C14_DataPorRegraEmU32 ==
    op.name = "validar_data" =>
        /\ (TresNumericos(op.inp) /\ \A i \in 1..3 : CabeEmU32(Split(op.inp, "/")[i]))
              => ret = Bool(DataCorreta(op.inp))
        /\ (TresNumericos(op.inp) /\ \E i \in 1..3 : ~CabeEmU32(Split(op.inp, "/")[i]))
              => ret = Bool(FALSE)
        /\ \A e \in ExemplosDeData : op.inp = e[1] => ret = Bool(e[2])

C14_Witness ==
    /\ op.name = "validar_data"
    /\ op.inp = TextoData(Dec2(29), Dec2(2), Dec(2000))
    /\ ret = Bool(TRUE)

\* C15: validar_data rejects every text that is not exactly three
\* slash-separated numeric tokens: fewer or more than three tokens, or three
\* tokens of which one is empty or not a number.
C15_DataMalFormadaRejeitada ==
    op.name = "validar_data" =>
        /\ NumTokens(op.inp, "/") # 3 => ret = Bool(FALSE)
        /\ (NumTokens(op.inp, "/") = 3 /\ \E i \in 1..3 : ~Numerico(Split(op.inp, "/")[i]))
              => ret = Bool(FALSE)

C15_Witness ==
    /\ op.name = "validar_data"
    /\ op.inp = <<"1", "/", "a", "/", "1">>
    /\ ret = Bool(FALSE)

\* The value a token counts for: its number, or 0 when it does not parse.
ValorOuZero(tok) == IF Numerico(tok) /\ CabeEmU32(tok) THEN Valor(tok) ELSE 0

\* The times C16 names, with the answer it gives for each.
ExemplosDeHora ==
    { <<TextoHora(Dec2(23), Dec2(59)), TRUE>>,
      <<TextoHora(Dec2(24), Dec2(0)), FALSE>>,
      <<TextoHora(Dec2(12), Dec2(60)), FALSE>>,
      <<TextoHora(<<"a", "b">>, <<"c", "d">>), TRUE>>,
      <<<<":">>, TRUE>> }

\* C16: validar_hora answers true exactly when the text has two
\* ':'-separated tokens with hour < 24 and minute < 60, a token that does
\* not parse counting as 0; the named times get the named answers.
C16_HoraPorRegra ==
    op.name = "validar_hora" =>
        /\ ret = Bool(/\ NumTokens(op.inp, ":") = 2
                      /\ ValorOuZero(Split(op.inp, ":")[1]) < 24
                      /\ ValorOuZero(Split(op.inp, ":")[2]) < 60)
        /\ \A e \in ExemplosDeHora : op.inp = e[1] => ret = Bool(e[2])

C16_Witness ==
    /\ op.name = "validar_hora"
    /\ op.inp = TextoHora(<<"a", "b">>, <<"c", "d">>)
    /\ ret = Bool(TRUE)

\* The dates and times of the arguments that the validators accept.
DatasAceitas ==
    {d \in {inp.data_aniversario : inp \in ContatoInputs} \cup {inp.data : inp \in CompromissoInputs} :
        validar_data(d)}

HorasAceitas == {h \in {inp.hora : inp \in CompromissoInputs} : validar_hora(h)}

\* C17: in every reachable state each stored contact has a non-empty name,
\* a non-empty phone and a birthdate validar_data accepts, and each stored
\* appointment has a non-empty title, a date validar_data accepts and a time
\* validar_hora accepts.
C17_RegistrosArmazenadosValidos ==
    /\ \A id \in Keys :
          contatos[id] # None =>
              /\ contatos[id].val.nome # <<>>
              /\ contatos[id].val.telefone # <<>>
              /\ contatos[id].val.data_aniversario \in DatasAceitas
    /\ \A id \in Keys :
          compromissos[id] # None =>
              /\ compromissos[id].val.titulo # <<>>
              /\ compromissos[id].val.data \in DatasAceitas
              /\ compromissos[id].val.hora \in HorasAceitas

\* An update has replaced a stored appointment and a contact is stored too.
C17_Witness ==
    /\ op.name = "atualizar_compromisso"
    /\ ret.tag = "Ok"
    /\ compromissos[op.id] = Some(Compromisso(op.inp))
    /\ \E id \in Keys : contatos[id] # None

\* C20: in an update the fields are judged before the identifier is looked
\* up: an update with invalid fields returns a validation error even when
\* the identifier holds no record, and the not-found error is returned only
\* when the fields are valid and the identifier holds no record.
C20_ValidacaoAntesDeExistencia ==
    [][ /\ (op'.name = "atualizar_contato" /\ op'.inp \in ContatoInvalidos)
           => (ret'.tag = "Err" /\ ret'.val \in MsgValidacaoContato)
        /\ (op'.name = "atualizar_contato" /\ ret' = Err(MsgContatoNaoEncontrado))
           => (op'.inp \notin ContatoInvalidos /\ ~Contains(contatos, op'.id))
        /\ (op'.name = "atualizar_compromisso" /\ op'.inp \in CompromissoInvalidos)
           => (ret'.tag = "Err" /\ ret'.val \in MsgValidacaoCompromisso)
        /\ (op'.name = "atualizar_compromisso" /\ ret' = Err(MsgCompromissoNaoEncontrado))
           => (op'.inp \notin CompromissoInvalidos /\ ~Contains(compromissos, op'.id))
      ]_vars

\* An update with an empty name of the deleted identifier 0 was refused for
\* the name, not as not found.
C20_Witness ==
    /\ op.name = "atualizar_contato"
    /\ op.id = 0
    /\ 0 \in deletados_contato
    /\ ~Contains(contatos, 0)
    /\ op.inp.nome = <<>>
    /\ ret = Err(MsgNomeVazio)

\* C18: with several callers sending creates in any interleaving, each call
\* running whole before the next, every successful create returns an
\* identifier no earlier create of the kind returned, whoever sent it; the
\* identifier held no record before; the record is stored under it; and every
\* other record of the kind stays as it was.
C18_CriacoesSerializadas ==
    [][ /\ (op'.name = "criar_contato" /\ ret'.tag = "Ok")
           => /\ ret'.val \notin Emitidos(criados_contato)
              /\ ~Contains(contatos, ret'.val)
              /\ Get(contatos', ret'.val) = Some(Contato(op'.inp))
              /\ \A k \in Keys \ {ret'.val} : Get(contatos', k) = Get(contatos, k)
              /\ Len(criador_contato') = Cardinality(Emitidos(criados_contato'))
        /\ (op'.name = "criar_compromisso" /\ ret'.tag = "Ok")
           => /\ ret'.val \notin Emitidos(criados_compromisso)
              /\ ~Contains(compromissos, ret'.val)
              /\ Get(compromissos', ret'.val) = Some(Compromisso(op'.inp))
              /\ \A k \in Keys \ {ret'.val} : Get(compromissos', k) = Get(compromissos, k)
              /\ Len(criador_compromisso') = Cardinality(Emitidos(criados_compromisso'))
      ]_vars

\* Two callers have each created a contact; both records are stored, each
\* under its own identifier.
C18_Witness ==
    /\ op.name = "criar_contato"
    /\ caller = "bob"
    /\ ret = Ok(1)
    /\ criador_contato = <<"alice", "bob">>
    /\ criados_contato = <<0, 1>>
    /\ Get(contatos, 0) = Some(Contato(ContatoArgs(Ana, Tel555, 20, D_01_01_2000, "Amigo")))
    /\ Get(contatos, 1) = Some(Contato(ContatoArgs(Bob, Tel777, 30, D_29_02_2024, "Familiar")))

\* What the message o returns and the store it leaves, as a function of the
\* store before and the arguments of o alone.
Efeito(o) ==
    CASE o.name = "criar_contato" ->
            IF o.inp \in ContatoInvalidos
            THEN [ret |-> Err(ErroCriarContato(o.inp)), store |-> store]
            ELSE IF next_contato_id = IdMax
            THEN [ret |-> Panic, store |-> store]
            ELSE [ret |-> Ok(next_contato_id),
                  store |-> <<[contatos EXCEPT ![next_contato_id] = Some(Contato(o.inp))],
                              compromissos, next_contato_id + 1, next_compromisso_id>>]
      [] o.name = "ler_contato" -> [ret |-> contatos[o.id], store |-> store]
      [] o.name = "atualizar_contato" ->
            IF o.inp \in ContatoInvalidos
            THEN [ret |-> Err(ErroAtualizarContato(o.inp)), store |-> store]
            ELSE IF contatos[o.id] = None
            THEN [ret |-> Err(MsgContatoNaoEncontrado), store |-> store]
            ELSE [ret |-> Ok(TRUE),
                  store |-> <<[contatos EXCEPT ![o.id] = Some(Contato(o.inp))],
                              compromissos, next_contato_id, next_compromisso_id>>]
      [] o.name = "deletar_contato" ->
            [ret |-> Bool(contatos[o.id] # None),
             store |-> <<[contatos EXCEPT ![o.id] = None],
                         compromissos, next_contato_id, next_compromisso_id>>]
      [] o.name = "listar_contatos" -> [ret |-> Vec(ListaContatos), store |-> store]
      [] o.name = "criar_compromisso" ->
            IF o.inp \in CompromissoInvalidos
            THEN [ret |-> Err(ErroCriarCompromisso(o.inp)), store |-> store]
            ELSE IF next_compromisso_id = IdMax
            THEN [ret |-> Panic, store |-> store]
            ELSE [ret |-> Ok(next_compromisso_id),
                  store |-> <<contatos,
                              [compromissos EXCEPT
                                  ![next_compromisso_id] = Some(Compromisso(o.inp))],
                              next_contato_id, next_compromisso_id + 1>>]

\* The account that sent the create of the contact id.
CriadorDoContato(id) ==
    criador_contato[CHOOSE i \in 1..Len(criados_contato) : criados_contato[i] = id]

\* C19: what a message returns and the store it leaves depend only on the
\* store before and the arguments, never on the sender, so two runs of one
\* sequence of messages under different senders agree step by step; and an
\* account other than the creator of a stored contact reads it, replaces it
\* and deletes it as the creator would.
C19_IndependenteDoCaller ==
    [][ /\ op'.name \in {"criar_contato", "ler_contato", "atualizar_contato",
                         "deletar_contato", "listar_contatos", "criar_compromisso"}
           => (ret' = Efeito(op').ret /\ store' = Efeito(op').store)
        /\ (/\ op'.name \in {"ler_contato", "atualizar_contato", "deletar_contato"}
            /\ Contains(contatos, op'.id)
            /\ CriadorDoContato(op'.id) # caller')
           => /\ op'.name = "ler_contato" => ret' = Get(contatos, op'.id)
              /\ (op'.name = "atualizar_contato" /\ op'.inp \notin ContatoInvalidos)
                    => (/\ ret' = Ok(TRUE)
                        /\ MesmoContato(Get(contatos', op'.id).val, op'.inp))
              /\ op'.name = "deletar_contato"
                    => (ret' = Bool(TRUE) /\ ~Contains(contatos', op'.id))
      ]_vars

\* bob has deleted the contact that alice created.
C19_Witness ==
    /\ op.name = "deletar_contato"
    /\ op.id = 0
    /\ caller = "bob"
    /\ Len(criados_contato) >= 1
    /\ criados_contato[1] = 0
    /\ criador_contato[1] = "alice"
    /\ ret = Bool(TRUE)
    /\ ~Contains(contatos, 0)

\* C11: after every call the counter of a kind is at least every identifier
\* issued for that kind so far, deleted ones included, and no call makes a
\* counter smaller.
C11_ContadorNaoDecresce ==
    [][ /\ next_contato_id' >= next_contato_id
        /\ next_compromisso_id' >= next_compromisso_id
        /\ \A id \in Emitidos(criados_contato') : next_contato_id' >= id
        /\ \A id \in Emitidos(criados_compromisso') : next_compromisso_id' >= id
      ]_vars

\* The greatest identifier issued for appointments, 1, has just been deleted
\* and the counter still stands above it.
C11_Witness ==
    /\ op.name = "deletar_compromisso"
    /\ op.id = 1
    /\ ret = Bool(TRUE)
    /\ criados_compromisso = <<0, 1>>
    /\ next_compromisso_id = 2

\* C12: with the counter of a kind at its greatest value (IdMax in the model,
\* u32::MAX in the code) a create with valid fields aborts: it returns no
\* identifier, stores nothing, and leaves the counters as they are (no wrap
\* to 0, no identifier issued twice).
C12_OverflowAborta ==
    [][ /\ (/\ op'.name = "criar_contato" /\ op'.inp \notin ContatoInvalidos
            /\ next_contato_id = IdMax)
           => (ret' = Panic /\ UNCHANGED <<store, hist>>)
        /\ (/\ op'.name = "criar_compromisso" /\ op'.inp \notin CompromissoInvalidos
            /\ next_compromisso_id = IdMax)
           => (ret' = Panic /\ UNCHANGED <<store, hist>>)
      ]_vars

\* A valid create of a contact has aborted with the counter at its greatest
\* value, every identifier below it having been issued.
C12_Witness ==
    /\ op.name = "criar_contato"
    /\ op.inp \notin ContatoInvalidos
    /\ ret = Panic
    /\ next_contato_id = IdMax
    /\ Len(criados_contato) = IdMax

\* The varied argument tuples that break a field rule of their kind.
ContatoVariadosInvalidos ==
    {inp \in ContatoVariados :
        inp.nome = <<>> \/ inp.telefone = <<>> \/ ~validar_data(inp.data_aniversario)}

CompromissoVariadosInvalidos ==
    {inp \in CompromissoVariados :
        inp.titulo = <<>> \/ ~validar_data(inp.data) \/ ~validar_hora(inp.hora)}

\* C13 as stated: a create fails exactly when a text field is empty or the
\* date (or the time) is refused, whatever the other fields; in every other
\* case the record is stored and its new identifier returned.
C13_CriarFalhaSseInvalido ==
    [][ /\ op'.name = "criar_contato"
           => IF op'.inp \in ContatoVariadosInvalidos
              THEN ret'.tag = "Err"
              ELSE /\ ret' = Ok(next_contato_id)
                   /\ Get(contatos', next_contato_id) = Some(Contato(op'.inp))
        /\ op'.name = "criar_compromisso"
           => IF op'.inp \in CompromissoVariadosInvalidos
              THEN ret'.tag = "Err"
              ELSE /\ ret' = Ok(next_compromisso_id)
                   /\ Get(compromissos', next_compromisso_id) = Some(Compromisso(op'.inp))
      ]_vars

\* C13 amended: a create returns a validation error exactly when a text field
\* is empty or the date (or the time) is refused; in every other case, while
\* the counter is below its greatest value, the record is stored and its new
\* identifier returned (at the greatest value the create aborts, C12).
C13_CriarErroSseInvalido ==
    [][ /\ op'.name = "criar_contato"
           => IF op'.inp \in ContatoVariadosInvalidos
              THEN ret'.tag = "Err"
              ELSE /\ ret'.tag # "Err"
                   /\ next_contato_id < IdMax
                         => /\ ret' = Ok(next_contato_id)
                            /\ Get(contatos', next_contato_id) = Some(Contato(op'.inp))
        /\ op'.name = "criar_compromisso"
           => IF op'.inp \in CompromissoVariadosInvalidos
              THEN ret'.tag = "Err"
              ELSE /\ ret'.tag # "Err"
                   /\ next_compromisso_id < IdMax
                         => /\ ret' = Ok(next_compromisso_id)
                            /\ Get(compromissos', next_compromisso_id)
                                   = Some(Compromisso(op'.inp))
      ]_vars

\* An appointment with a negative duracao has been created as the second one,
\* after a contact of idade 0.
C13_Witness ==
    /\ op.name = "criar_compromisso"
    /\ op.inp.duracao < 0
    /\ ret = Ok(1)
    /\ Get(compromissos, 1) = Some(Compromisso(op.inp))
    /\ \E k \in Keys : Contains(contatos, k) /\ Get(contatos, k).val.idade = 0

\* C21: a delete of identifier id leaves every other record of the kind
\* under its identifier with its fields, leaves the counter of the kind as
\* it was, and a delete that returns false changes nothing at all.
C21_DeletarSoRemoveUm ==
    [][ /\ op'.name = "deletar_contato"
           => /\ \A k \in Keys \ {op'.id} : Get(contatos', k) = Get(contatos, k)
              /\ next_contato_id' = next_contato_id
              /\ ret' = Bool(FALSE) => UNCHANGED <<store, hist>>
        /\ op'.name = "deletar_compromisso"
           => /\ \A k \in Keys \ {op'.id} : Get(compromissos', k) = Get(compromissos, k)
              /\ next_compromisso_id' = next_compromisso_id
              /\ ret' = Bool(FALSE) => UNCHANGED <<store, hist>>
      ]_vars

\* Contact 1 was deleted while contact 0 stays stored and the counter is
\* still 2.
C21_Witness ==
    /\ op.name = "deletar_contato"
    /\ op.id = 1
    /\ ret = Bool(TRUE)
    /\ Contains(contatos, 0)
    /\ ~Contains(contatos, 1)
    /\ next_contato_id = 2

\* C22: ler_contato, ler_compromisso, listar_contatos and listar_compromissos
\* leave both collections and both counters as they were; a read returns the
\* stored record when the identifier holds one and None otherwise, for a
\* never-issued and for a deleted identifier alike, and never an error.
C22_LerListarSoObservam ==
    [][ /\ op'.name \in {"ler_contato", "ler_compromisso",
                         "listar_contatos", "listar_compromissos"}
           => UNCHANGED store
        /\ op'.name = "ler_contato"
           => /\ ret'.tag \in {"Some", "None"}
              /\ Contains(contatos, op'.id) => ret' = Some(contatos[op'.id].val)
              /\ ~Contains(contatos, op'.id) => ret' = None
              /\ op'.id \in deletados_contato => ret' = None
              /\ op'.id \notin Emitidos(criados_contato) => ret' = None
        /\ op'.name = "ler_compromisso"
           => /\ ret'.tag \in {"Some", "None"}
              /\ Contains(compromissos, op'.id) => ret' = Some(compromissos[op'.id].val)
              /\ ~Contains(compromissos, op'.id) => ret' = None
              /\ op'.id \in deletados_compromisso => ret' = None
              /\ op'.id \notin Emitidos(criados_compromisso) => ret' = None
        /\ op'.name \in {"listar_contatos", "listar_compromissos"} => ret'.tag = "Vec"
      ]_vars

\* A read of the deleted appointment 0 returned None while appointment 1 is
\* stored.
C22_Witness ==
    /\ op.name = "ler_compromisso"
    /\ op.id = 0
    /\ 0 \in deletados_compromisso
    /\ ret = None
    /\ Contains(compromissos, 1)

\* C23 as stated: within a create the record is inserted under the
\* identifier read before the counter is incremented, so at the statement
\* that advances the counter the record is already stored.
C23_InserirAntesDeIncrementar ==
    [][ /\ next_contato_id' # next_contato_id
           => Get(contatos, op.id) = Some(Contato(op.inp))
        /\ next_compromisso_id' # next_compromisso_id
           => Get(compromissos, op.id) = Some(Compromisso(op.inp))
      ]_vars

\* C23 amended: within a create the counter is read as the new identifier,
\* then the counter is incremented while nothing is stored yet under the
\* identifier, and only then is the record inserted under the identifier
\* read, the counter standing one above it.
C23_IncrementarAntesDeInserir ==
    [][ /\ next_contato_id' # next_contato_id
           => /\ op.id = next_contato_id
              /\ next_contato_id' = next_contato_id + 1
              /\ ~Contains(contatos, op.id)
              /\ contatos' = contatos
        /\ contatos' # contatos
           => /\ next_contato_id = op.id + 1
              /\ next_contato_id' = next_contato_id
              /\ contatos' = Insert(contatos, op.id, Contato(op.inp))
              /\ ret' = Ok(op.id)
        /\ next_compromisso_id' # next_compromisso_id
           => /\ op.id = next_compromisso_id
              /\ next_compromisso_id' = next_compromisso_id + 1
              /\ ~Contains(compromissos, op.id)
              /\ compromissos' = compromissos
        /\ compromissos' # compromissos
           => /\ next_compromisso_id = op.id + 1
              /\ next_compromisso_id' = next_compromisso_id
              /\ compromissos' = Insert(compromissos, op.id, Compromisso(op.inp))
              /\ ret' = Ok(op.id)
      ]_vars

\* The second create of a contact has advanced the counter to 2 and has not
\* yet inserted its record under 1.
C23_Witness ==
    /\ op.name = "criar_contato"
    /\ ret = Executando("incrementado")
    /\ op.id = 1
    /\ next_contato_id = 2
    /\ Contains(contatos, 0)
    /\ ~Contains(contatos, 1)

Texto_0_0_0 == <<"0", "/", "0", "/", "0">>

\* C24 as stated: validar_data returns true for the text "0/0/0".
C24_ZeroBarraZeroAceito ==
    (op.name = "validar_data" /\ op.inp = Texto_0_0_0) => ret = Bool(TRUE)

\* C24 amended: validar_data returns false for "0/0/0", and for every text
\* of three tokens of which one evaluates to 0, be it a zero or a token that
\* does not parse.
C24_ZeroBarraZeroRejeitado ==
    op.name = "validar_data" =>
        /\ op.inp = Texto_0_0_0 => ret = Bool(FALSE)
        /\ (/\ NumTokens(op.inp, "/") = 3
            /\ \E i \in 1..3 : ValorOuZero(Split(op.inp, "/")[i]) = 0)
              => ret = Bool(FALSE)

C24_Witness ==
    /\ op.name = "validar_data"
    /\ op.inp = Texto_0_0_0
    /\ ret = Bool(FALSE)

\* The dates and times of the field combinations that the validators accept.
DatasAceitasNasCombinacoes ==
    {d \in {inp.data_aniversario : inp \in ContatoCombinacoes}
              \cup {inp.data : inp \in CompromissoCombinacoes} : validar_data(d)}

HorasAceitasNasCombinacoes ==
    {h \in {inp.hora : inp \in CompromissoCombinacoes} : validar_hora(h)}

\* C25: a failing create or update reports the first failing check in a
\* fixed order: for contacts empty name, then empty phone, then invalid
\* birthdate; for appointments empty title, then invalid date, then invalid
\* time; when several fields are invalid only the earliest is reported.
C25_PrimeiroErroNaOrdem ==
    [][ /\ op'.name \in {"criar_contato", "atualizar_contato"}
           => /\ op'.inp.nome = <<>> => ret' = Err(MsgNomeVazio)
              /\ (op'.inp.nome # <<>> /\ op'.inp.telefone = <<>>)
                    => ret' = Err(MsgTelefoneVazio)
              /\ (/\ op'.inp.nome # <<>> /\ op'.inp.telefone # <<>>
                  /\ op'.inp.data_aniversario \notin DatasAceitasNasCombinacoes)
                    => ret' = Err(MsgAniversarioInvalido)
              /\ (/\ op'.inp.nome # <<>> /\ op'.inp.telefone # <<>>
                  /\ op'.inp.data_aniversario \in DatasAceitasNasCombinacoes)
                    => (ret'.tag = "Err" => ret'.val \notin MsgValidacaoContato)
        /\ op'.name \in {"criar_compromisso", "atualizar_compromisso"}
           => /\ op'.inp.titulo = <<>> => ret' = Err(MsgTituloVazio)
              /\ (op'.inp.titulo # <<>> /\ op'.inp.data \notin DatasAceitasNasCombinacoes)
                    => ret' = Err(MsgDataInvalida)
              /\ (/\ op'.inp.titulo # <<>> /\ op'.inp.data \in DatasAceitasNasCombinacoes
                  /\ op'.inp.hora \notin HorasAceitasNasCombinacoes)
                    => ret' = Err(MsgHoraInvalida)
              /\ (/\ op'.inp.titulo # <<>> /\ op'.inp.data \in DatasAceitasNasCombinacoes
                  /\ op'.inp.hora \in HorasAceitasNasCombinacoes)
                    => (ret'.tag = "Err" => ret'.val \notin MsgValidacaoCompromisso)
      ]_vars

\* A create with an empty phone and an invalid birthdate has reported the
\* phone, on a store that holds a contact.
C25_Witness ==
    /\ op.name = "criar_contato"
    /\ op.inp = ContatoArgs(Ana, Vazio, 20, D_31_04_2025, "Amigo")
    /\ ret = Err(MsgTelefoneVazio)
    /\ Contains(contatos, 0)

\* C26: between messages, for each kind, every identifier that holds a
\* record is below the counter; every identifier below the counter holds a
\* record or was removed by a delete that returned true; the identifiers
\* issued are exactly 0..counter-1; and the stored identifiers are the issued
\* ones minus the deleted ones.
C26_ArmazenadosAbaixoDoContador ==
    /\ Armazenados(contatos) \subseteq 0..(next_contato_id - 1)
    /\ \A id \in 0..(next_contato_id - 1) :
          Contains(contatos, id) \/ id \in deletados_contato
    /\ Emitidos(criados_contato) = 0..(next_contato_id - 1)
    /\ Armazenados(contatos) = Emitidos(criados_contato) \ deletados_contato
    /\ Armazenados(compromissos) \subseteq 0..(next_compromisso_id - 1)
    /\ \A id \in 0..(next_compromisso_id - 1) :
          Contains(compromissos, id) \/ id \in deletados_compromisso
    /\ Emitidos(criados_compromisso) = 0..(next_compromisso_id - 1)
    /\ Armazenados(compromissos) = Emitidos(criados_compromisso) \ deletados_compromisso

\* Two appointments were issued, 0 was deleted and 1 is stored; a valid
\* update of the absent identifier 0 has just been refused.
C26_Witness ==
    /\ next_compromisso_id = 2
    /\ deletados_compromisso = {0}
    /\ Armazenados(compromissos) = {1}
    /\ op.name = "atualizar_compromisso"
    /\ op.id = 0
    /\ ret = Err(MsgCompromissoNaoEncontrado)

\* The counter of the kind that the running listing walks.
ContadorDaListagem ==
    IF op.name = "listar_contatos" THEN next_contato_id ELSE next_compromisso_id

\* C27: every message ends with a result: a create, read or delete ends in
\* one step with its value, its error or the overflow abort; a listing that has
\* started visits 0, 1, ..., counter-1 one after the other, each once, and
\* then returns the records stored; and every listing that runs returns.
C27_TodaOperacaoTermina ==
    /\ [][ /\ op'.name \in {"criar_contato", "ler_contato", "deletar_contato",
                            "criar_compromisso", "deletar_compromisso"}
              => ret'.tag \in {"Ok", "Err", "Panic", "Some", "None", "bool"}
           /\ (ret.tag # "Executando" /\ ret'.tag = "Executando")
              => (ret'.val.id = 0 /\ ret'.val.lista = <<>>)
           /\ (ret.tag = "Executando" /\ ret'.tag = "Executando")
              => /\ ret.val.id < ContadorDaListagem
                 /\ ret'.val.id = ret.val.id + 1
                 /\ UNCHANGED <<op, store>>
           /\ ret.tag = "Executando"
              => ret'.tag \in {"Executando", "Vec"}
           /\ (ret.tag = "Executando" /\ ret'.tag = "Vec")
              => /\ ret.val.id = ContadorDaListagem
                 /\ ret'.val = IF op.name = "listar_contatos"
                               THEN ListaContatos ELSE ListaCompromissos
                 /\ UNCHANGED <<op, store>>
         ]_vars
    /\ (ret.tag = "Executando") ~> (ret.tag = "Vec")

\* A listing of contacts has returned one record after walking the
\* identifiers 0 and 1, of which 0 was deleted.
C27_Witness ==
    /\ op.name = "listar_contatos"
    /\ ret.tag = "Vec"
    /\ Len(ret.val) = 1
    /\ next_contato_id = 2
    /\ deletados_contato = {0}

====
